---- MODULE Spec2Model ----
(***************************************************************************)
(* A model of the rate limiter and of the verification state machine of    *)
(* AptosSybilShield:                                                       *)
(*   src/api/endpoints/optimized_api_server.py   MockRedis,                *)
(*       TokenBucketRateLimiter, validate_api_key, the routes              *)
(*   src/off-chain/identity/verification_system.py   the verifiers and     *)
(*       VerificationManager                                               *)
(*                                                                         *)
(* Quantities.  Token counts, capacities, rates and costs are integer      *)
(* multiples of one token unit and the clock counts whole seconds, so the  *)
(* float arithmetic of consume is modelled exactly (no rounding).          *)
(* An optional value (a Python None or a missing dict entry) is a set      *)
(* with no element; a present value v is the set {v}.                      *)
(***************************************************************************)
EXTENDS Integers, Sequences, FiniteSets, TLC

\* ------------------------------------------------------------------ bounds
MaxTime == 4    \* the clock runs from 0 to MaxTime
MaxCap  == 3    \* capacities 1..MaxCap (and the capacity of ScenarioCfg)
MaxRate == 3    \* refill rates 1..MaxRate tokens per second
MaxCost == 3    \* costs 0..MaxCost tokens per call
NReq    == 3    \* requests the gateway handles, and the largest rate_limit created

VARIABLES
    now,        \* time.time(): seconds, never decreasing
    redis,      \* MockRedis: [data |-> key -> value, expiry |-> key -> time]
    cfg,        \* the (capacity, rate) the caller passes to consume
    lastCall,   \* history: the last consume call and what it did
    streak,     \* history, per key: position in a run of equal calls at one instant
    denial,     \* history, per key: the last call on the key was denied, when, at what level
    shadow,     \* history: the same calls made on a store that never drops an entry
    alone,      \* history, per key: that key's calls made on a store of its own
    phase,      \* history, per key: position in the 10/1/1 scenario
    api_keys,   \* the gateway's api_keys dict: API key -> rate_limit
    req,        \* the gateway's requests in flight, each with its position
    request_counts, \* analytics server: requests counted per key and minute
    served,     \* history: the answers given under each counter, in order
    verifiers,  \* VerificationManager.verifiers: verification_type -> verifier
    verification_records,   \* VerificationManager.verification_records
    vstate,     \* each verifier object: its verification_id and its sessions
    nonce,      \* the number of verification ids generated so far
    lastOp,     \* history: the last manager call and its outcome
    left,       \* history, per id: the statuses the manager's record has left
    leftM,      \* history, per id: the statuses the verifier's session has left
    threads,    \* each caller thread of the manager: where it is in its call
    answer,     \* history, per id: the status the verifier returned last
    observed,   \* history: what the last reader of the records saw
    history,    \* the last get_verification_history call: its address and result
    wh          \* the send_webhook coroutine: its arguments, its place, its attempts

limVars == <<cfg, lastCall, streak, denial, phase, shadow, alone>>
gwVars  == <<api_keys, req, request_counts, served>>
verVars == <<verifiers, verification_records, vstate, nonce, lastOp, left, leftM>>
thrVars == <<threads, answer, observed, history>>
whVars == <<wh>>
vars == <<now, redis, limVars, gwVars, verVars, thrVars, whVars>>

Min(a, b) == IF a <= b THEN a ELSE b
TheOne(S) == CHOOSE x \in S : TRUE

\* ------------------------------------------------------------- MockRedis
\* MockRedis.__init__: two empty dicts.
EmptyRedis == [data |-> <<>>, expiry |-> <<>>]

\* MockRedis.get: the value when the key is stored and not expired, else None.
\* An expired entry is not removed, only hidden.
RedisGet(st, key, t) ==
    IF key \in DOMAIN st.data /\ (key \notin DOMAIN st.expiry \/ st.expiry[key] > t)
    THEN {st.data[key]}
    ELSE {}

\* MockRedis.set: stores the value; the expiry is written only when ex is
\* truthy (ex = 0 leaves whatever expiry the key had).
RedisSet(st, key, value, ex, t) ==
    [data   |-> (key :> value) @@ st.data,
     expiry |-> IF ex # 0 THEN (key :> (t + ex)) @@ st.expiry ELSE st.expiry]

\* ---------------------------------------------- TokenBucketRateLimiter
Keys == {"a"}

\* A mutant of BucketKey: one bucket for every key.
BucketKey_Shared(key) == <<"ratelimit", "">>

\* bucket_key = f"ratelimit:{key}"
BucketKey(key) == <<"ratelimit", key>>

\* A mutant of Ttl: half the time.
Ttl_Half(rate, capacity) == capacity \div (2 * rate)

\* ex = int(capacity / rate * 2)
Ttl(rate, capacity) == (2 * capacity) \div rate

\* A mutant of Refill: the refill is not capped at the capacity.
Refill_NoCap(tokens_available, elapsed, rate, capacity) ==
    tokens_available + (elapsed * rate)

\* new_tokens = min(capacity, tokens_available + (elapsed * rate))
Refill(tokens_available, elapsed, rate, capacity) ==
    Min(capacity, tokens_available + (elapsed * rate))

\* A mutant of Decide: the comparison admits a call one token short.
Decide_OffByOne(bucket_json, t, tokens, rate, capacity) ==
    IF bucket_json # {}
    THEN LET bucket     == TheOne(bucket_json)
             new_tokens == Refill(bucket.tokens, t - bucket.last_refill, rate, capacity)
         IN  IF new_tokens + 1 < tokens
             THEN [ret |-> FALSE, bucket |-> {}]
             ELSE [ret |-> TRUE,
                   bucket |-> {[tokens |-> new_tokens - tokens, last_refill |-> t]}]
    ELSE IF tokens > capacity
         THEN [ret |-> FALSE, bucket |-> {}]
         ELSE [ret |-> TRUE,
               bucket |-> {[tokens |-> capacity - tokens, last_refill |-> t]}]

\* A mutant of Decide: a denial keeps the token count and moves last_refill
\* to the time of the call, and the bucket is persisted.
Decide_PersistDenial(bucket_json, t, tokens, rate, capacity) ==
    IF bucket_json # {}
    THEN LET bucket     == TheOne(bucket_json)
             new_tokens == Refill(bucket.tokens, t - bucket.last_refill, rate, capacity)
         IN  IF new_tokens < tokens
             THEN [ret |-> FALSE,
                   bucket |-> {[tokens |-> bucket.tokens, last_refill |-> t]}]
             ELSE [ret |-> TRUE,
                   bucket |-> {[tokens |-> new_tokens - tokens, last_refill |-> t]}]
    ELSE IF tokens > capacity
         THEN [ret |-> FALSE, bucket |-> {}]
         ELSE [ret |-> TRUE,
               bucket |-> {[tokens |-> capacity - tokens, last_refill |-> t]}]

\* consume, from the value redis.get returned to the return statement:
\* ret is the result, bucket the dict handed to redis.set ({} when the call
\* returns before the set).  json.loads(json.dumps(bucket)) gives back the
\* same two numbers, so the stored value is the record itself.
Decide(bucket_json, t, tokens, rate, capacity) ==
    IF bucket_json # {}
    THEN LET bucket     == TheOne(bucket_json)
             new_tokens == Refill(bucket.tokens, t - bucket.last_refill, rate, capacity)
         IN  IF new_tokens < tokens
             THEN [ret |-> FALSE, bucket |-> {}]
             ELSE [ret |-> TRUE,
                   bucket |-> {[tokens |-> new_tokens - tokens, last_refill |-> t]}]
    ELSE IF tokens > capacity
         THEN [ret |-> FALSE, bucket |-> {}]
         ELSE [ret |-> TRUE,
               bucket |-> {[tokens |-> capacity - tokens, last_refill |-> t]}]

\* consume run from start to end with nothing in between: the store after
\* the call, the result, and the number of redis.get and redis.set calls made.
Consume(st, key, tokens, rate, capacity, t) ==
    LET bucket_json == RedisGet(st, BucketKey(key), t)
        d           == Decide(bucket_json, t, tokens, rate, capacity)
    IN  [ret    |-> d.ret,
         redis  |-> IF d.bucket # {}
                    THEN RedisSet(st, BucketKey(key), TheOne(d.bucket),
                                  Ttl(rate, capacity), t)
                    ELSE st,
         reads  |-> 1,
         writes |-> IF d.bucket # {} THEN 1 ELSE 0]

\* ------------------------------------------ the limiter, one call at a time
\* The configuration of the 10/1/1 scenario: capacity 10, rate 1 per second.
ScenarioCfg == [capacity |-> 10, rate |-> 1]

Configs == {[capacity |-> c, rate |-> r] : c \in 1..MaxCap, r \in 1..MaxRate}
           \cup {ScenarioCfg}

NoStreak == [idx |-> 0, cost |-> 0, at |-> 0]

\* The tokens the bucket of the key holds at time t: the capacity when no
\* bucket is stored, else the stored count refilled for the time since
\* last_refill.
Available(st, key, t) ==
    LET b == RedisGet(st, BucketKey(key), t)
    IN  IF b = {} THEN cfg.capacity
        ELSE Min(cfg.capacity,
                 TheOne(b).tokens + (t - TheOne(b).last_refill) * cfg.rate)

\* The position of a call in a run of calls of one cost > 0 on one key at one
\* instant that began with no bucket stored; 0 when the call is in no such
\* run, or the run is past the first denial.
NextStreak(s, fresh, cost, t) ==
    IF cost = 0 THEN NoStreak
    ELSE IF fresh THEN [idx |-> 1, cost |-> cost, at |-> t]
    ELSE IF s.idx > 0 /\ s.cost = cost /\ s.at = t /\ s.idx <= cfg.capacity \div cost
         THEN [s EXCEPT !.idx = s.idx + 1]
         ELSE NoStreak

\* The 10/1/1 scenario: "drained" is the 11th call of cost 1 at one instant,
\* "plus1" the first call of cost 1 one second later, "after" the call of
\* cost 1 that follows it at that same instant.
NextPhase(p, s, cost, t) ==
    IF cfg = ScenarioCfg /\ cost = 1 /\ s.idx = 11
    THEN [name |-> "drained", at |-> t]
    ELSE IF cfg = ScenarioCfg /\ cost = 1 /\ p.name = "drained" /\ t = p.at + 1
    THEN [name |-> "plus1", at |-> t]
    ELSE IF cfg = ScenarioCfg /\ cost = 1 /\ p.name = "plus1" /\ t = p.at
    THEN [name |-> "after", at |-> t]
    ELSE [name |-> "none", at |-> 0]

\* ------------------------------------------------ verification_system.py
\* 'max_attempts': 3 in ProofOfPersonhoodVerifier.start_verification
PopMaxAttempts == 3

\* The verifier objects of the model, one of each class and method:
\* SocialMediaVerifier("twitter"), DecentralizedIDVerifier("did:web"),
\* ProofOfPersonhoodVerifier("captcha"), ProofOfPersonhoodVerifier("video").
VerifierObjects == {"twitter", "did:web", "captcha", "video"}

\* A second object of a kind that has one already: another
\* ProofOfPersonhoodVerifier("video").
SecondObjects == {"video2"}
AllObjects == VerifierObjects \cup SecondObjects

Class(i) ==
    CASE i = "twitter" -> "SocialMediaVerifier"
      [] i = "did:web" -> "DecentralizedIDVerifier"
      [] OTHER         -> "ProofOfPersonhoodVerifier"

\* self.verification_type, as each __init__ builds it: f"social_{platform}",
\* f"did_{did_method.replace(':', '_')}", f"pop_{method}".
VerificationType(i) ==
    CASE i = "twitter" -> "social_twitter"
      [] i = "did:web" -> "did_did_web"
      [] i = "captcha" -> "pop_captcha"
      [] i = "video"   -> "pop_video"
      [] i = "video2"  -> "pop_video"

\* A verifier object after __init__: no id generated, no session.
NewVerifier == [verification_id |-> {}, sessions |-> <<>>]

\* generate_verification_id: the type, the address and a part (the timestamp
\* and 8 random bytes) that n stands for; n is different at every call.
VerificationId(i, address, n) == <<VerificationType(i), address, n>>

\* The dict a start_verification stores.  attempts and max_attempts are
\* keys of a ProofOfPersonhood session only; verified_at and proof are
\* absent until a completion writes them.
NewSession(address, challenge, t) ==
    [address |-> address, challenge |-> challenge, status |-> "pending",
     timestamp |-> t, attempts |-> 0, max_attempts |-> PopMaxAttempts,
     verified_at |-> {}, proof |-> {}]

\* _generate_challenge of each class.  The captcha branch of
\* ProofOfPersonhoodVerifier calls np.random.randint, and the module binds
\* no name np (its imports are lines 8-16): the call raises NameError.
GenerateChallenge(i, address, n, t) ==
    CASE i = "twitter" -> [raised |-> FALSE, challenge |-> <<"post", address, t>>]
      [] i = "did:web" -> [raised |-> FALSE, challenge |-> <<"sign", address, t>>]
      [] i = "captcha" -> [raised |-> TRUE,  challenge |-> <<"NameError", "", 0>>]
      [] i \in {"video", "video2"} ->
                          [raised |-> FALSE, challenge |-> <<"video", "", n>>]

\* start_verification of the three classes: the id is generated (and kept in
\* self.verification_id), then the challenge, then the session is stored.
VerifierStart(i, v, address, n, t) ==
    LET id == VerificationId(i, address, n)
        v1 == [v EXCEPT !.verification_id = {id}]
        c  == GenerateChallenge(i, address, n, t)
    IN  IF c.raised
        THEN [v |-> v1, raised |-> TRUE, verification_id |-> id, status |-> ""]
        ELSE [v |-> [v1 EXCEPT !.sessions =
                        (id :> NewSession(address, c.challenge, t)) @@ @],
              raised |-> FALSE, verification_id |-> id, status |-> "pending"]

\* A mutant of VerifierCheck: an id without a session is answered pending.
VerifierCheck_Pending(v, id) ==
    IF id \notin DOMAIN v.sessions THEN "pending" ELSE v.sessions[id].status

\* check_verification_status of the three classes: a read.
VerifierCheck(v, id) ==
    IF id \notin DOMAIN v.sessions THEN "not_found" ELSE v.sessions[id].status

\* A mutant of PopSuccess: every method compares the proof as captcha does,
\* so a proof that is no str fails.
PopSuccess_AlwaysCompare(i, session_data, proof) ==
    proof.isStr /\ (i = "captcha" => proof.val = session_data.challenge[2])

\* verification_success in ProofOfPersonhoodVerifier.complete_verification:
\* the captcha answer must be the str of the challenge; video always passes.
PopSuccess(i, session_data, proof) ==
    IF i = "captcha"
    THEN proof.isStr /\ proof.val = session_data.challenge[2]
    ELSE TRUE

\* A mutant of PopComplete: every write of 'status' goes to another key, so
\* the stored status never changes.
PopComplete_StatusKeyTypo(session_data, verification_success, t) ==
    LET s1 == [session_data EXCEPT !.attempts = @ + 1]
    IN  IF s1.attempts > s1.max_attempts
        THEN [session |-> s1, status |-> "failed"]
        ELSE IF verification_success
        THEN [session |-> [s1 EXCEPT !.verified_at = {t}], status |-> "verified"]
        ELSE IF s1.attempts >= s1.max_attempts
        THEN [session |-> s1, status |-> "failed"]
        ELSE [session |-> s1, status |-> "pending"]

\* A mutant of PopComplete: the proof is evaluated before the limit is
\* looked at, so a correct proof verifies whatever the attempt count.
PopComplete_ProofFirst(session_data, verification_success, t) ==
    LET s1 == [session_data EXCEPT !.attempts = @ + 1]
    IN  IF verification_success
        THEN [session |-> [s1 EXCEPT !.status = "verified", !.verified_at = {t}],
              status |-> "verified"]
        ELSE IF s1.attempts >= s1.max_attempts
        THEN [session |-> [s1 EXCEPT !.status = "failed"], status |-> "failed"]
        ELSE [session |-> s1, status |-> "pending"]

\* A mutant of PopComplete: the limit test is an equality, so it fires for
\* one attempt count only.
PopComplete_LimitOnce(session_data, verification_success, t) ==
    LET s1 == [session_data EXCEPT !.attempts = @ + 1]
    IN  IF s1.attempts = s1.max_attempts + 1
        THEN [session |-> [s1 EXCEPT !.status = "failed"], status |-> "failed"]
        ELSE IF verification_success
        THEN [session |-> [s1 EXCEPT !.status = "verified", !.verified_at = {t}],
              status |-> "verified"]
        ELSE IF s1.attempts >= s1.max_attempts
        THEN [session |-> [s1 EXCEPT !.status = "failed"], status |-> "failed"]
        ELSE [session |-> s1, status |-> "pending"]

\* A mutant of PopComplete: a session that reaches the limit is handed a
\* new challenge.
PopComplete_Reissue(session_data, verification_success, t) ==
    LET s1 == [session_data EXCEPT !.attempts = @ + 1]
    IN  IF s1.attempts > s1.max_attempts
        THEN [session |-> [s1 EXCEPT !.status = "failed",
                                     !.challenge = <<"video", "", 0>>],
              status |-> "failed"]
        ELSE IF verification_success
        THEN [session |-> [s1 EXCEPT !.status = "verified", !.verified_at = {t}],
              status |-> "verified"]
        ELSE IF s1.attempts >= s1.max_attempts
        THEN [session |-> [s1 EXCEPT !.status = "failed"], status |-> "failed"]
        ELSE [session |-> s1, status |-> "pending"]

\* ProofOfPersonhoodVerifier.complete_verification on a known id: the
\* attempt is counted, then the limit is checked, then the proof.
PopComplete(session_data, verification_success, t) ==
    LET s1 == [session_data EXCEPT !.attempts = @ + 1]
    IN  IF s1.attempts > s1.max_attempts
        THEN [session |-> [s1 EXCEPT !.status = "failed"], status |-> "failed"]
        ELSE IF verification_success
        THEN [session |-> [s1 EXCEPT !.status = "verified", !.verified_at = {t}],
              status |-> "verified"]
        ELSE IF s1.attempts >= s1.max_attempts
        THEN [session |-> [s1 EXCEPT !.status = "failed"], status |-> "failed"]
        ELSE [session |-> s1, status |-> "pending"]

\* complete_verification of the three classes.  An unknown id is answered
\* 'failed'.  SocialMediaVerifier writes status, proof and verified_at and
\* then hashes proof.encode(), which raises AttributeError for a proof that
\* is no str; DecentralizedIDVerifier writes status and then reads
\* proof.get('did'), which raises AttributeError for a str.
VerifierComplete(i, v, id, proof, t) ==
    IF id \notin DOMAIN v.sessions
    THEN [v |-> v, raised |-> FALSE, status |-> "failed"]
    ELSE LET s == v.sessions[id] IN
         CASE Class(i) = "SocialMediaVerifier" ->
                [v |-> [v EXCEPT !.sessions[id] =
                           [s EXCEPT !.status = "verified", !.proof = {proof},
                                     !.verified_at = {t}]],
                 raised |-> ~proof.isStr,
                 status |-> IF proof.isStr THEN "verified" ELSE ""]
           [] Class(i) = "DecentralizedIDVerifier" ->
                IF proof.isStr
                THEN [v |-> [v EXCEPT !.sessions[id] = [s EXCEPT !.status = "verified"]],
                      raised |-> TRUE, status |-> ""]
                ELSE [v |-> [v EXCEPT !.sessions[id] =
                                [s EXCEPT !.status = "verified", !.proof = {proof},
                                          !.verified_at = {t}]],
                      raised |-> FALSE, status |-> "verified"]
           [] OTHER ->
                LET r == PopComplete(s, PopSuccess(i, s, proof), t)
                IN  [v |-> [v EXCEPT !.sessions[id] = r.session],
                     raised |-> FALSE, status |-> r.status]

Addresses == {"0xa", "0xb"}
Proofs == {[isStr |-> TRUE, val |-> "https://t/1"], [isStr |-> FALSE, val |-> "did:web:x"]}
NoId == <<"", "", 0>>
NoProof == [isStr |-> FALSE, val |-> ""]
NoOp == [op |-> "none", kind |-> "", id |-> NoId, proof |-> NoProof,
         raised |-> FALSE, status |-> "", prevStart |-> {}, was |-> "", obj |-> ""]

NThreads == 2
Threads == 1..NThreads
Idle == [pc |-> "idle", id |-> NoId, status |-> "", proof |-> NoProof]

\* send_webhook has not been called.
NoWebhook == [pc |-> "idle", secret |-> {}, max_retries |-> 0, attempt |-> 0,
              posts |-> 0, signed |-> FALSE, log |-> <<>>, slept |-> <<>>]
WhInit == wh = NoWebhook

\* No thread is inside a call of the manager.
ThrInit ==
    /\ threads = [t \in Threads |-> Idle]
    /\ answer = <<>>
    /\ observed = {}
    /\ history = [address |-> "", result |-> <<>>]

\* VerificationManager.__init__ and the verifier objects before any call.
VerInit ==
    /\ verifiers = <<>>
    /\ verification_records = <<>>
    /\ vstate = [i \in AllObjects |-> NewVerifier]
    /\ nonce = 0
    /\ lastOp = NoOp
    /\ left = <<>>
    /\ leftM = <<>>

\* api_keys as the module creates it: one key, 100 requests per minute.
TestKeyRateLimit == 100
InitialApiKeys == ("test_api_key" :> TestKeyRateLimit)

Requests == 1..NReq
NewRequest ==
    [pc |-> "new", endpoint |-> "", header |-> "", query |-> FALSE, known |-> FALSE,
     calls |-> 0, admitted |-> FALSE, bucket |-> {}, ran |-> FALSE, status |-> 0]

\* Two callers of the limiter, and the store each has to itself, before any
\* call.
TwoKeys == {"a", "b"}
NoneAlone == [k \in TwoKeys |-> [redis |-> EmptyRedis, ret |-> {}]]

\* The store that never drops an entry, before any call.
NoShadow == [data |-> <<>>, ret |-> FALSE]

\* consume on the store that never drops an entry: the same decision, made
\* from the bucket last written for the key, however long ago.
ShadowConsume(sh, key, tokens, rate, capacity, t) ==
    LET bucket_json == IF BucketKey(key) \in DOMAIN sh.data
                       THEN {sh.data[BucketKey(key)]} ELSE {}
        d           == Decide(bucket_json, t, tokens, rate, capacity)
    IN  [data |-> IF d.bucket # {}
                  THEN (BucketKey(key) :> TheOne(d.bucket)) @@ sh.data
                  ELSE sh.data,
         ret  |-> d.ret]

NoCall ==
    [called |-> FALSE, key |-> "a", cost |-> 0, at |-> 0, ret |-> FALSE,
     reads |-> 0, writes |-> 0, idx |-> 0, den |-> {}, phase |-> "none",
     pre |-> EmptyRedis]

Init ==
    /\ now = 0
    /\ redis = EmptyRedis
    /\ cfg \in Configs
    /\ lastCall = NoCall
    /\ streak = [k \in Keys |-> NoStreak]
    /\ denial = [k \in Keys |-> {}]
    /\ phase = [k \in Keys |-> [name |-> "none", at |-> 0]]
    /\ shadow = NoShadow
    /\ alone = NoneAlone
    /\ api_keys = InitialApiKeys
    /\ req = [r \in Requests |-> NewRequest]
    /\ request_counts = <<>>
    /\ served = <<>>
    /\ VerInit
    /\ ThrInit
    /\ WhInit

\* rate_limiter.consume(key, cost, cfg.rate, cfg.capacity) at time now.
ConsumeCall(key, cost) ==
    LET r     == Consume(redis, key, cost, cfg.rate, cfg.capacity, now)
        fresh == RedisGet(redis, BucketKey(key), now) = {}
        s     == NextStreak(streak[key], fresh, cost, now)
        p     == NextPhase(phase[key], s, cost, now)
    IN  /\ redis' = r.redis
        /\ streak' = [streak EXCEPT ![key] = s]
        /\ phase' = [phase EXCEPT ![key] = p]
        /\ denial' = [denial EXCEPT ![key] =
                         IF r.ret THEN {}
                         ELSE {[at |-> now, avail |-> Available(redis, key, now)]}]
        /\ lastCall' = [called |-> TRUE, key |-> key, cost |-> cost, at |-> now,
                        ret |-> r.ret, reads |-> r.reads, writes |-> r.writes,
                        idx |-> s.idx, den |-> denial[key], phase |-> p.name,
                        pre |-> redis]
        /\ shadow' = ShadowConsume(shadow, key, cost, cfg.rate, cfg.capacity, now)
        /\ UNCHANGED <<whVars, thrVars, now, cfg, gwVars, verVars, alone>>

\* The clock advances by one second.
Tick ==
    /\ now < MaxTime
    /\ now' = now + 1
    /\ UNCHANGED <<whVars, thrVars, redis, limVars, gwVars, verVars>>

Next ==
    \/ \E key \in Keys, cost \in 0..MaxCost : ConsumeCall(key, cost)
    \/ Tick

Spec == Init /\ [][Next]_vars

\* ------------------------------------------------ claims on the limiter
StoredBucket(st, key) ==
    IF BucketKey(key) \in DOMAIN st.data THEN {st.data[BucketKey(key)]} ELSE {}

\* C1: after any sequence of consume calls on a key, with any costs >= 0 and
\* a clock that never goes back, the bucket persisted for the key holds
\* 0 <= tokens <= capacity; a call that returned True left no negative count.
C1_TokensWithinCapacity ==
    \A k \in Keys :
        \A b \in StoredBucket(redis, k) : 0 <= b.tokens /\ b.tokens <= cfg.capacity

\* C1 happens: an admitted call of cost > 0 found a bucket whose uncapped
\* refill was above the capacity, and left the bucket empty.
C1_Witness ==
    /\ lastCall.called /\ lastCall.ret /\ lastCall.cost > 0
    /\ \E b \in StoredBucket(lastCall.pre, lastCall.key) :
          b.tokens + (lastCall.at - b.last_refill) * cfg.rate > cfg.capacity
    /\ \E b \in StoredBucket(redis, lastCall.key) : b.tokens = 0

\* C2: from a key with no bucket stored and with no time passing, the i-th
\* consecutive consume of one cost > 0 returns True exactly when
\* i <= floor(capacity / cost), for every i up to floor(capacity / cost) + 1.
C2_FreshBucketAdmitsFloor ==
    (lastCall.called /\ lastCall.idx >= 1) =>
        (lastCall.ret <=> lastCall.idx <= cfg.capacity \div lastCall.cost)

\* C2 happens: the call after the last admitted one was denied, at least two
\* calls were admitted, and the cost does not divide the capacity.
C2_Witness ==
    /\ lastCall.called /\ ~lastCall.ret
    /\ lastCall.idx >= 3
    /\ lastCall.idx = (cfg.capacity \div lastCall.cost) + 1
    /\ cfg.capacity % lastCall.cost # 0

C5_DenialPersistsLastRefill ==
    (lastCall.called /\ ~lastCall.ret) =>
        /\ lastCall.reads = 1 /\ lastCall.writes = 1
        /\ \E b \in StoredBucket(redis, lastCall.key) :
              /\ b.last_refill = lastCall.at
              /\ \A o \in StoredBucket(lastCall.pre, lastCall.key) : b.tokens = o.tokens

\* C5 as amended: a denied consume makes one read and no write; the stored
\* bucket (token count, last_refill) and its expiry are as before the call.
C5_DenialLeavesStore ==
    (lastCall.called /\ ~lastCall.ret) =>
        /\ lastCall.reads = 1 /\ lastCall.writes = 0
        /\ redis = lastCall.pre

\* C5 happens: a call was denied on a stored, unexpired bucket whose
\* last_refill is earlier than the time of the call.
C5_Witness ==
    /\ lastCall.called /\ ~lastCall.ret
    /\ RedisGet(lastCall.pre, BucketKey(lastCall.key), lastCall.at) # {}
    /\ \E b \in StoredBucket(redis, lastCall.key) : b.last_refill < lastCall.at

\* ------------------------------------------------------------ the gateway
\* validate_api_key converts the per-minute rate_limit to tokens per second
\* (rate_limit / 60).  The gateway's buckets are counted in 1/60 of a token,
\* so that this rate is a whole number: one token is SecondsPerMinute units.
SecondsPerMinute == 60

\* The routes declared with api_key: str = Depends(validate_api_key).
ProtectedEndpoints == {"/api/check", "/api/verify"}

\* The routes whose registered callable is the wrapper that cached() returns.
\* The wrapper is declared (*args, **kwargs) and does not copy the signature
\* of the function it wraps, so the framework, which reads the parameters of
\* the callable given to app.post, finds two query parameters named args
\* and kwargs and no Depends(validate_api_key).
CachedEndpoints == {"/api/check"}

\* The dependencies the framework resolves before it calls the route.
ValidatedEndpoints == ProtectedEndpoints \ CachedEndpoints

Headers == {"test_api_key", "ask_1", "bogus"}

\* create_api_key: a new key with the rate_limit of the request (ge=1).
CreateApiKey(rate_limit) ==
    /\ "ask_1" \notin DOMAIN api_keys
    /\ api_keys' = ("ask_1" :> rate_limit) @@ api_keys
    /\ UNCHANGED <<whVars, thrVars, now, redis, limVars, req, verVars, request_counts, served>>

\* validate_api_key up to the point where redis.get has answered and consume
\* has decided: 401 for an unknown key, 429 when consume returns False
\* (nothing is written), else the bucket consume is about to hand to redis.set.
ValidateRead(r, header) ==
    IF header \notin DOMAIN api_keys
    THEN [req[r] EXCEPT !.pc = "done", !.status = 401]
    ELSE LET rate_limit  == api_keys[header]
             bucket_json == RedisGet(redis, BucketKey(<<"api", header>>), now)
             d == Decide(bucket_json, now, 1 * SecondsPerMinute, rate_limit,
                         rate_limit * SecondsPerMinute)
         IN  IF d.ret
             THEN [req[r] EXCEPT !.pc = "set", !.calls = @ + 1, !.bucket = d.bucket]
             ELSE [req[r] EXCEPT !.pc = "done", !.calls = @ + 1, !.status = 429]

\* A request arrives and runs to its first wait on the store.  A route with
\* the dependency runs validate_api_key; the cached route has none, and is
\* answered 422 when the query parameters args and kwargs are missing (the
\* other routes take no query parameter).
Receive(r, endpoint, header, query) ==
    /\ req[r].pc = "new"
    /\ query => endpoint \in CachedEndpoints
    /\ LET q == [req[r] EXCEPT !.endpoint = endpoint, !.header = header,
                               !.query = query,
                               !.known = (header \in DOMAIN api_keys)]
       IN  req' = [req EXCEPT ![r] =
                      IF endpoint \in ValidatedEndpoints
                      THEN [ValidateRead(r, header) EXCEPT
                               !.endpoint = endpoint, !.header = header,
                               !.query = query, !.known = q.known]
                      ELSE IF query
                           THEN [q EXCEPT !.pc = "handler"]
                           ELSE [q EXCEPT !.pc = "done", !.status = 422]]
    /\ UNCHANGED <<whVars, thrVars, now, redis, limVars, api_keys, verVars, request_counts, served>>

\* consume resumes after the read: redis.set stores the bucket it computed
\* from what it read, consume returns True and validate_api_key returns.
ValidateWrite(r) ==
    /\ req[r].pc = "set"
    /\ LET rate_limit == api_keys[req[r].header]
       IN  redis' = RedisSet(redis, BucketKey(<<"api", req[r].header>>),
                             TheOne(req[r].bucket),
                             Ttl(rate_limit, rate_limit * SecondsPerMinute), now)
    /\ req' = [req EXCEPT ![r].pc = "handler", ![r].admitted = TRUE, ![r].bucket = {}]
    /\ UNCHANGED <<whVars, thrVars, now, limVars, api_keys, verVars, request_counts, served>>

\* The route's callable runs.  The cached wrapper calls check_address with
\* the keyword arguments args and kwargs, which it does not take: status 500.
Handler(r) ==
    /\ req[r].pc = "handler"
    /\ req' = [req EXCEPT ![r].pc = "done", ![r].ran = TRUE,
                          ![r].status = IF req[r].endpoint \in CachedEndpoints
                                        THEN 500 ELSE 200]
    /\ UNCHANGED <<whVars, thrVars, now, redis, limVars, api_keys, verVars, request_counts, served>>

GwInit ==
    /\ now = 0
    /\ redis = EmptyRedis
    /\ cfg = ScenarioCfg
    /\ lastCall = NoCall
    /\ streak = [k \in Keys |-> NoStreak]
    /\ denial = [k \in Keys |-> {}]
    /\ phase = [k \in Keys |-> [name |-> "none", at |-> 0]]
    /\ shadow = NoShadow
    /\ alone = NoneAlone
    /\ api_keys = InitialApiKeys
    /\ req = [r \in Requests |-> NewRequest]
    /\ request_counts = <<>>
    /\ served = <<>>
    /\ VerInit
    /\ ThrInit
    /\ WhInit

GwNext ==
    \/ \E rate_limit \in 1..NReq : CreateApiKey(rate_limit)
    \/ \E r \in Requests, e \in ProtectedEndpoints, h \in Headers, q \in BOOLEAN :
          Receive(r, e, h, q)
    \/ \E r \in Requests : ValidateWrite(r)
    \/ \E r \in Requests : Handler(r)

\* The gateway with the clock held still: the requests are concurrent, and
\* each wait on the store (await redis.get, await redis.set) is a point
\* where another request may run.
SpecGateway == GwInit /\ [][GwNext]_vars

\* The requests with the given API key that consume has admitted.
Admitted(header) == {r \in Requests : req[r].header = header /\ req[r].admitted}

C6_ConsumeOnceBeforeHandler ==
    \A r \in Requests :
        (req[r].known /\ req[r].endpoint \in ProtectedEndpoints) =>
            /\ req[r].ran => (req[r].calls = 1 /\ req[r].admitted)
            /\ req[r].pc = "done" => req[r].calls = 1
            /\ (req[r].pc = "done" /\ req[r].calls = 1 /\ ~req[r].admitted) =>
                  (req[r].status = 429 /\ ~req[r].ran)

\* ------------------------------------------------- VerificationManager
MaxStarts == 1
AttemptCap == 5

\* Types a caller may name: the four of the verifier objects and one that no
\* verifier has.
VerificationTypes == {VerificationType(i) : i \in VerifierObjects} \cup {"kyc_basic"}

\* Ids a caller may present: those the manager has recorded and one it has not.
UnknownId == <<"social_twitter", "0xa", 0>>
PresentedIds == DOMAIN verification_records \cup {UnknownId}

NewRecord(verification_type, address, t) ==
    [verification_type |-> verification_type, address |-> address,
     status |-> "pending", started_at |-> t, verified_at |-> {}, proof_hash |-> {}]

\* hashlib.sha256(str(proof).encode()).hexdigest()
ProofHash(proof) == <<"sha256", proof>>

\* The statuses a record or a session has had and no longer has.
Leave(h, id, old, new) ==
    IF old = new THEN h ELSE [h EXCEPT ![id] = @ \cup {old}]

\* The id a start returned, when the call before this one was that start.
JustStarted ==
    IF lastOp.op = "start" /\ ~lastOp.raised /\ lastOp.status = "pending"
    THEN {lastOp.id} ELSE {}

\* A mutant of NotFound: the unknown id is answered as an error.
NotFound_Error(op, verification_id, proof) ==
    [NoOp EXCEPT !.op = op, !.id = verification_id, !.proof = proof,
                 !.status = "error"]

\* The answer of check and of complete for an id the manager has no record
\* of: a dict with status 'not_found', returned, not raised.
NotFound(op, verification_id, proof) ==
    [NoOp EXCEPT !.op = op, !.id = verification_id, !.proof = proof,
                 !.status = "not_found"]

\* A mutant of Register: a kind that has a verifier keeps it.
Register_KeepFirst(registry, i) ==
    registry @@ (VerificationType(i) :> i)

\* self.verifiers[verifier.verification_type] = verifier
Register(registry, i) ==
    (VerificationType(i) :> i) @@ registry

\* register_verifier
MgrRegister(i) ==
    /\ verifiers' = Register(verifiers, i)
    /\ lastOp' = [NoOp EXCEPT !.op = "register", !.kind = VerificationType(i),
                              !.obj = i,
                              !.was = IF VerificationType(i) \in DOMAIN verifiers
                                      THEN verifiers[VerificationType(i)] ELSE ""]
    /\ UNCHANGED <<whVars, thrVars, now, redis, limVars, gwVars, verification_records, vstate,
                   nonce, left, leftM>>

\* start_verification of the manager, while fewer than limit ids have been
\* generated.
MgrStartUpTo(limit, verification_type, address) ==
    IF verification_type \notin DOMAIN verifiers
    THEN /\ lastOp' = [NoOp EXCEPT !.op = "start", !.kind = verification_type,
                                   !.status = "error"]
         /\ UNCHANGED <<whVars, thrVars, now, redis, limVars, gwVars, verifiers,
                        verification_records, vstate, nonce, left, leftM>>
    ELSE /\ nonce < limit
         /\ LET i == verifiers[verification_type]
                r == VerifierStart(i, vstate[i], address, nonce + 1, now)
            IN  /\ vstate' = [vstate EXCEPT ![i] = r.v]
                /\ nonce' = nonce + 1
                /\ lastOp' = [NoOp EXCEPT !.op = "start", !.kind = verification_type,
                                          !.id = r.verification_id,
                                          !.raised = r.raised,
                                          !.status = r.status]
                /\ IF r.raised
                   THEN UNCHANGED <<verification_records, left, leftM>>
                   ELSE /\ verification_records' =
                              (r.verification_id :> NewRecord(verification_type, address, now))
                              @@ verification_records
                        /\ left' = (r.verification_id :> {}) @@ left
                        /\ leftM' = (r.verification_id :> {}) @@ leftM
         /\ UNCHANGED <<whVars, thrVars, now, redis, limVars, gwVars, verifiers>>

\* start_verification of the manager
MgrStart(verification_type, address) ==
    MgrStartUpTo(MaxStarts, verification_type, address)

\* check_verification_status of the manager
MgrCheck(verification_id) ==
    IF verification_id \notin DOMAIN verification_records
    THEN /\ lastOp' = NotFound("check", verification_id, NoProof)
         /\ UNCHANGED <<whVars, thrVars, now, redis, limVars, gwVars, verifiers,
                        verification_records, vstate, nonce, left, leftM>>
    ELSE LET record == verification_records[verification_id]
             kind   == record.verification_type
         IN  IF kind \notin DOMAIN verifiers
             THEN /\ lastOp' = [NoOp EXCEPT !.op = "check", !.id = verification_id,
                                            !.kind = kind, !.status = "error"]
                  /\ UNCHANGED <<whVars, thrVars, now, redis, limVars, gwVars, verifiers,
                                 verification_records, vstate, nonce, left, leftM>>
             ELSE LET status == VerifierCheck(vstate[verifiers[kind]], verification_id)
                  IN  /\ verification_records' =
                            [verification_records EXCEPT ![verification_id].status = status]
                      /\ left' = Leave(left, verification_id, record.status, status)
                      /\ lastOp' = [NoOp EXCEPT !.op = "check", !.id = verification_id,
                                                !.kind = kind, !.status = status]
                      /\ UNCHANGED <<whVars, thrVars, now, redis, limVars, gwVars, verifiers, vstate,
                                     nonce, leftM>>

\* complete_verification of the manager
MgrComplete(verification_id, proof) ==
    IF verification_id \notin DOMAIN verification_records
    THEN /\ lastOp' = NotFound("complete", verification_id, proof)
         /\ UNCHANGED <<whVars, thrVars, now, redis, limVars, gwVars, verifiers,
                        verification_records, vstate, nonce, left, leftM>>
    ELSE LET record == verification_records[verification_id]
             kind   == record.verification_type
         IN  IF kind \notin DOMAIN verifiers
             THEN /\ lastOp' = [NoOp EXCEPT !.op = "complete", !.id = verification_id,
                                            !.kind = kind, !.proof = proof,
                                            !.status = "error"]
                  /\ UNCHANGED <<whVars, thrVars, now, redis, limVars, gwVars, verifiers,
                                 verification_records, vstate, nonce, left, leftM>>
             ELSE LET i == verifiers[kind]
                      r == VerifierComplete(i, vstate[i], verification_id, proof, now)
                      before == VerifierCheck(vstate[i], verification_id)
                      after  == VerifierCheck(r.v, verification_id)
                  IN  /\ before # "not_found" => vstate[i].sessions[verification_id].attempts < AttemptCap
                      /\ vstate' = [vstate EXCEPT ![i] = r.v]
                      /\ leftM' = Leave(leftM, verification_id, before, after)
                      /\ lastOp' = [NoOp EXCEPT !.op = "complete", !.id = verification_id,
                                                !.kind = kind, !.proof = proof,
                                                !.raised = r.raised, !.status = r.status,
                                                !.prevStart = JustStarted, !.was = before]
                      /\ IF r.raised
                         THEN UNCHANGED <<verification_records, left>>
                         ELSE /\ verification_records' =
                                    [verification_records EXCEPT ![verification_id] =
                                        IF r.status = "verified"
                                        THEN [@ EXCEPT !.status = r.status,
                                                       !.verified_at = {now},
                                                       !.proof_hash = {ProofHash(proof)}]
                                        ELSE [@ EXCEPT !.status = r.status]]
                              /\ left' = Leave(left, verification_id, record.status, r.status)
                      /\ UNCHANGED <<whVars, thrVars, now, redis, limVars, gwVars, verifiers, nonce>>

\* The calls of one instant: datetime.now() is held still.
VerifyInit ==
    /\ now = 0
    /\ redis = EmptyRedis
    /\ cfg = ScenarioCfg
    /\ lastCall = NoCall
    /\ streak = [k \in Keys |-> NoStreak]
    /\ denial = [k \in Keys |-> {}]
    /\ phase = [k \in Keys |-> [name |-> "none", at |-> 0]]
    /\ shadow = NoShadow
    /\ alone = NoneAlone
    /\ api_keys = InitialApiKeys
    /\ req = [r \in Requests |-> NewRequest]
    /\ request_counts = <<>>
    /\ served = <<>>
    /\ VerInit
    /\ ThrInit
    /\ WhInit

VerNext ==
    \/ \E i \in VerifierObjects : MgrRegister(i)
    \/ \E verification_type \in VerificationTypes, address \in Addresses :
          MgrStart(verification_type, address)
    \/ \E verification_id \in PresentedIds : MgrCheck(verification_id)
    \/ \E verification_id \in PresentedIds, proof \in Proofs :
          MgrComplete(verification_id, proof)

SpecVerify == VerifyInit /\ [][VerNext]_vars

\* ------------------------------------------------ the verification claims
PopObjects == {i \in VerifierObjects : Class(i) = "ProofOfPersonhoodVerifier"}

\* The session the owning method keeps for a recorded id, if it keeps one.
OwnerSession(id) ==
    LET v == vstate[verifiers[verification_records[id].verification_type]]
    IN  IF id \in DOMAIN v.sessions THEN {v.sessions[id]} ELSE {}

\* A proof the method of verifier i accepts: a post URL (a str) for a social
\* account, a dict with did and signature for a DID, the answer of the
\* challenge for a captcha, any recording for a video.
CorrectProof(i, session_data, proof) ==
    CASE Class(i) = "SocialMediaVerifier"     -> proof.isStr
      [] Class(i) = "DecentralizedIDVerifier" -> ~proof.isStr
      [] OTHER                                -> PopSuccess(i, session_data, proof)

\* C7: for every recorded verification id, the status of the manager's record
\* and the status the owning method stores only move forward: neither is ever
\* again a status it has left, so a status that has been verified is never
\* pending afterwards and a terminal status never gives way to an earlier one.
C7_StatusMovesForward ==
    \A id \in DOMAIN verification_records :
        /\ verification_records[id].status \notin left[id]
        /\ "verified" \in left[id] => verification_records[id].status # "pending"
        /\ \A s \in OwnerSession(id) :
              /\ s.status \notin leftM[id]
              /\ "verified" \in leftM[id] => s.status # "pending"

\* A verification that was pending, then verified, and has moved on from
\* verified, at the manager and at the method.
C7_Witness ==
    \E id \in DOMAIN verification_records :
        /\ left[id] = {"pending", "verified"}
        /\ leftM[id] = {"pending", "verified"}
        /\ verification_records[id].status = "failed"
        /\ lastOp.op = "complete"

\* C8: a captcha verification is started (the start returns pending) and then
\* completed three times: the 1st and the 2nd completion with a wrong proof
\* return pending, and the 3rd returns failed whatever its proof.
C8_CaptchaThreeAttempts ==
    /\ (lastOp.op = "start" /\ lastOp.kind = "pop_captcha"
            /\ lastOp.kind \in DOMAIN verifiers)
        => (~lastOp.raised /\ lastOp.status = "pending")
    /\ (lastOp.op = "complete" /\ lastOp.kind = "pop_captcha" /\ lastOp.was = "pending")
        => \A s \in OwnerSession(lastOp.id) :
              /\ (s.attempts < s.max_attempts
                      /\ ~PopSuccess("captcha", s, lastOp.proof))
                  => lastOp.status = "pending"
              /\ s.attempts = s.max_attempts => lastOp.status = "failed"

\* C9: for every registered kind and every address, a start returns a pending
\* verification, and a completion with a correct proof that directly follows
\* the start returns verified and leaves the manager's record verified with
\* verified_at and proof_hash set.
C9_StartThenCompleteVerifies ==
    /\ (lastOp.op = "start" /\ lastOp.kind \in DOMAIN verifiers)
        => /\ ~lastOp.raised
           /\ lastOp.status = "pending"
           /\ lastOp.id \in DOMAIN verification_records
    /\ (lastOp.op = "complete" /\ lastOp.prevStart = {lastOp.id})
        => \A s \in OwnerSession(lastOp.id) :
              CorrectProof(verifiers[lastOp.kind], s, lastOp.proof)
              => /\ ~lastOp.raised
                 /\ lastOp.status = "verified"
                 /\ verification_records[lastOp.id].status = "verified"
                 /\ verification_records[lastOp.id].verified_at # {}
                 /\ verification_records[lastOp.id].proof_hash # {}

\* C10: a ProofOfPersonhood session whose stored status is pending has
\* attempts <= max_attempts, after any number of completions with any proofs.
C10_PendingWithinMaxAttempts ==
    \A i \in PopObjects : \A id \in DOMAIN vstate[i].sessions :
        vstate[i].sessions[id].status = "pending"
        => vstate[i].sessions[id].attempts <= vstate[i].sessions[id].max_attempts

\* A ProofOfPersonhood session completed more often than max_attempts: its
\* stored status is failed.
C10_Witness ==
    /\ lastOp.op = "complete"
    /\ \E i \in PopObjects : \E id \in DOMAIN vstate[i].sessions :
          /\ id = lastOp.id
          /\ vstate[i].sessions[id].attempts > vstate[i].sessions[id].max_attempts
          /\ vstate[i].sessions[id].status = "failed"

\* The ProofOfPersonhood session a step's completion acts on: the step is a
\* complete call of the manager that reaches the verifier i for an id i knows.
PopCompletes(i, id) ==
    /\ lastOp'.op = "complete"
    /\ lastOp'.id = id
    /\ lastOp'.kind = VerificationType(i)
    /\ vstate'[i] # vstate[i]

\* C11: every ProofOfPersonhood completion on a known id adds exactly 1 to
\* attempts, and when the new count is above max_attempts the stored status
\* becomes failed and the call returns failed, whatever the proof, the
\* correct one included.
C11_AttemptCountedFirst ==
    [][\A i \in PopObjects : \A id \in DOMAIN vstate[i].sessions :
          PopCompletes(i, id)
          => /\ vstate'[i].sessions[id].attempts = vstate[i].sessions[id].attempts + 1
             /\ vstate'[i].sessions[id].attempts > vstate'[i].sessions[id].max_attempts
                => /\ vstate'[i].sessions[id].status = "failed"
                   /\ lastOp'.status = "failed"]_vars

\* A completion with a proof the method accepts, made when the attempts
\* were already used up: it is answered failed.
C11_Witness ==
    /\ lastOp.op = "complete"
    /\ lastOp.status = "failed"
    /\ \E i \in PopObjects : \E id \in DOMAIN vstate[i].sessions :
          /\ id = lastOp.id
          /\ CorrectProof(i, vstate[i].sessions[id], lastOp.proof)
          /\ vstate[i].sessions[id].attempts = vstate[i].sessions[id].max_attempts + 1
          /\ lastOp.proof.isStr

\* C12: a ProofOfPersonhood session whose stored status is failed stays
\* failed at every step, and every later completion on its id returns
\* failed, whatever the proof.
C12_FailedIsFinal ==
    [][\A i \in PopObjects : \A id \in DOMAIN vstate[i].sessions :
          vstate[i].sessions[id].status = "failed"
          => /\ id \in DOMAIN vstate'[i].sessions
             /\ vstate'[i].sessions[id].status = "failed"
             /\ PopCompletes(i, id) => lastOp'.status = "failed"]_vars

\* A completion on a session that had failed before the call, carrying a
\* proof the method accepts.
C12_Witness ==
    /\ lastOp.op = "complete"
    /\ lastOp.was = "failed"
    /\ lastOp.status = "failed"
    /\ \E i \in PopObjects : \E id \in DOMAIN vstate[i].sessions :
          /\ id = lastOp.id
          /\ CorrectProof(i, vstate[i].sessions[id], lastOp.proof)
          /\ vstate[i].sessions[id].status = "failed"
          /\ vstate[i].sessions[id].attempts > vstate[i].sessions[id].max_attempts + 1

\* C13: a check or a complete, with any proof, on an id the manager has no
\* record of returns not_found without raising, and leaves the manager's
\* records, its registry and every verifier's state as they were.
C13_UnknownIdNotFound ==
    [][(lastOp'.op \in {"check", "complete"}
            /\ lastOp'.id \notin DOMAIN verification_records)
        => /\ lastOp'.status = "not_found"
           /\ ~lastOp'.raised
           /\ verification_records' = verification_records
           /\ vstate' = vstate
           /\ verifiers' = verifiers]_vars

\* A complete on an unknown id, made while the manager has a record and its
\* verifier a session.
C13_Witness ==
    /\ lastOp.op = "complete"
    /\ lastOp.id \notin DOMAIN verification_records
    /\ lastOp.status = "not_found"
    /\ lastOp.proof.isStr
    /\ DOMAIN verification_records # {}

\* C14: a start with an unregistered kind returns an error and creates no
\* record and no verifier state; a start with a registered kind returns and
\* stores exactly one new record, under the returned id, with that kind,
\* that address and status pending.
C14_StartStoresOneRecord ==
    [][lastOp'.op = "start"
        => IF lastOp'.kind \notin DOMAIN verifiers
           THEN /\ lastOp'.status = "error"
                /\ ~lastOp'.raised
                /\ verification_records' = verification_records
                /\ vstate' = vstate
           ELSE /\ ~lastOp'.raised
                /\ lastOp'.id \notin DOMAIN verification_records
                /\ DOMAIN verification_records' =
                      DOMAIN verification_records \cup {lastOp'.id}
                /\ \A id \in DOMAIN verification_records :
                      verification_records'[id] = verification_records[id]
                /\ verification_records'[lastOp'.id].verification_type = lastOp'.kind
                /\ verification_records'[lastOp'.id].address = lastOp'.id[2]
                /\ verification_records'[lastOp'.id].status = "pending"]_vars

\* C15: a check changes no stored state, neither the manager's record nor
\* the verifier's session, and a check that directly follows a check of the
\* same id returns the same status.
C15_CheckChangesNothing ==
    [][lastOp'.op = "check"
        => /\ verification_records' = verification_records
           /\ vstate' = vstate
           /\ (lastOp.op = "check" /\ lastOp.id = lastOp'.id)
              => lastOp'.status = lastOp.status]_vars

\* ------------------------------------- the manager under several callers
\* The ids of the records of an address.
HistoryIds(records, address) ==
    {id \in DOMAIN records : records[id].address = address}

\* The order in which a dict yields these keys: the order of their first
\* insertion, which is the order in which the ids were generated.
InsertionOrder(S) ==
    CHOOSE seq \in [1..Cardinality(S) -> S] :
        \A a, b \in 1..Cardinality(S) : a < b => seq[a][3] < seq[b][3]

\* get_verification_history: the records of the address, in dict order.
GetVerificationHistory(records, address) ==
    LET ids == InsertionOrder(HistoryIds(records, address))
    IN  [k \in 1..Len(ids) |->
            [verification_id   |-> ids[k],
             verification_type |-> records[ids[k]].verification_type,
             status            |-> records[ids[k]].status,
             started_at        |-> records[ids[k]].started_at,
             verified_at       |-> records[ids[k]].verified_at]]

\* The status the owning verifier returned last for an id: that of its
\* start until a check or a complete has returned.
Answer(id) == IF id \in DOMAIN answer THEN answer[id] ELSE "pending"

\* complete_verification up to the return of verifier.complete_verification
\* (line 801): the record is found, the verifier called.  An exception of
\* the verifier ends the call.
ThrCompleteDelegate(t, verification_id, proof) ==
    /\ threads[t].pc = "idle"
    /\ verification_id \in DOMAIN verification_records
    /\ LET i == verifiers[verification_records[verification_id].verification_type]
           r == VerifierComplete(i, vstate[i], verification_id, proof, now)
       IN  /\ vstate[i].sessions[verification_id].attempts < AttemptCap
           /\ vstate' = [vstate EXCEPT ![i] = r.v]
           /\ answer' = IF r.raised THEN answer
                        ELSE (verification_id :> r.status) @@ answer
           /\ threads' = [threads EXCEPT ![t] =
                            IF r.raised THEN Idle
                            ELSE [pc |-> "complete", id |-> verification_id,
                                  status |-> r.status, proof |-> proof]]
    /\ UNCHANGED <<whVars, now, redis, limVars, gwVars, verifiers, verification_records,
                   nonce, lastOp, left, leftM, observed, history>>

\* complete_verification from line 804 on: the record takes the status of
\* the result, and verified_at and proof_hash when it is verified.
ThrCompleteMirror(t) ==
    /\ threads[t].pc = "complete"
    /\ verification_records' =
          [verification_records EXCEPT ![threads[t].id] =
              IF threads[t].status = "verified"
              THEN [@ EXCEPT !.status = threads[t].status,
                             !.verified_at = {now},
                             !.proof_hash = {ProofHash(threads[t].proof)}]
              ELSE [@ EXCEPT !.status = threads[t].status]]
    /\ threads' = [threads EXCEPT ![t] = Idle]
    /\ UNCHANGED <<whVars, now, redis, limVars, gwVars, verifiers, vstate, nonce, lastOp,
                   left, leftM, answer, observed, history>>

\* check_verification_status up to the return of the verifier's check
\* (line 765).
ThrCheckDelegate(t, verification_id) ==
    /\ threads[t].pc = "idle"
    /\ verification_id \in DOMAIN verification_records
    /\ LET i == verifiers[verification_records[verification_id].verification_type]
           status == VerifierCheck(vstate[i], verification_id)
       IN  /\ answer' = (verification_id :> status) @@ answer
           /\ threads' = [threads EXCEPT ![t] =
                            [pc |-> "check", id |-> verification_id,
                             status |-> status, proof |-> NoProof]]
    /\ UNCHANGED <<whVars, now, redis, limVars, gwVars, verVars, observed, history>>

\* check_verification_status at line 768: record['status'] = result['status'].
ThrCheckMirror(t) ==
    /\ threads[t].pc = "check"
    /\ verification_records' =
          [verification_records EXCEPT ![threads[t].id].status = threads[t].status]
    /\ threads' = [threads EXCEPT ![t] = Idle]
    /\ UNCHANGED <<whVars, now, redis, limVars, gwVars, verifiers, vstate, nonce, lastOp,
                   left, leftM, answer, observed, history>>

\* A reader: get_verification_history(address), with, for each entry, the
\* status the verifier returned last for its id.
ThrHistory(address) ==
    /\ observed' =
          LET h == GetVerificationHistory(verification_records, address)
          IN  {[id |-> h[k].verification_id, status |-> h[k].status,
                answer |-> Answer(h[k].verification_id)] : k \in 1..Len(h)}
    /\ UNCHANGED <<whVars, now, redis, limVars, gwVars, verVars, threads, answer, history>>

ThrNext ==
    \/ \E i \in VerifierObjects : MgrRegister(i)
    \/ \E verification_type \in VerificationTypes, address \in Addresses :
          MgrStart(verification_type, address)
    \/ \E t \in Threads, verification_id \in PresentedIds, proof \in Proofs :
          ThrCompleteDelegate(t, verification_id, proof)
    \/ \E t \in Threads : ThrCompleteMirror(t)
    \/ \E t \in Threads, verification_id \in PresentedIds :
          ThrCheckDelegate(t, verification_id)
    \/ \E t \in Threads : ThrCheckMirror(t)
    \/ \E address \in Addresses : ThrHistory(address)

SpecThreads == VerifyInit /\ [][ThrNext]_vars

\* C16: whenever a reader reads the records while check and complete calls
\* on an id are under way, the status it sees in the manager's record is the
\* status the owning verifier returned last for that id.
C16_ReaderSeesLatestAnswer ==
    \A o \in observed : o.status = o.answer

\* ------------------------------------------------ the history of an address
MaxRecords == 2

\* get_verification_history of the manager
MgrHistory(address) ==
    /\ history' = [address |-> address,
                   result  |-> GetVerificationHistory(verification_records, address)]
    /\ lastOp' = [NoOp EXCEPT !.op = "history"]
    /\ UNCHANGED <<whVars, now, redis, limVars, gwVars, verifiers, verification_records,
                   vstate, nonce, left, leftM, threads, answer, observed>>

HistNext ==
    \/ \E i \in VerifierObjects : MgrRegister(i)
    \/ \E verification_type \in VerificationTypes, address \in Addresses :
          MgrStartUpTo(MaxRecords, verification_type, address)
    \/ \E verification_id \in PresentedIds, proof \in Proofs :
          MgrComplete(verification_id, proof)
    \/ \E address \in Addresses : MgrHistory(address)

SpecHistory == VerifyInit /\ [][HistNext]_vars

\* C17: get_verification_history(address) changes no stored state and
\* returns the stored records of that address and no other, each once,
\* newest first: an entry started later stands before one started earlier.
C17_HistoryNewestFirst ==
    [][lastOp'.op = "history"
        => /\ verification_records' = verification_records
           /\ vstate' = vstate
           /\ verifiers' = verifiers
           /\ LET h == history'.result
              IN  /\ {h[k].verification_id : k \in 1..Len(h)} =
                        HistoryIds(verification_records, history'.address)
                  /\ Len(h) = Cardinality(HistoryIds(verification_records, history'.address))
                  /\ \A k \in 1..Len(h) :
                        h[k].status = verification_records[h[k].verification_id].status
                  /\ \A a, b \in 1..Len(h) :
                        a < b => h[a].verification_id[3] > h[b].verification_id[3]]_vars

\* ------------------------------------ the verification routes of the API
\* max_retries: int = 3
DefaultMaxRetries == 3

\* send_webhook as its call begins: the arguments bound, the headers built,
\* with X-Webhook-Signature when the secret is truthy, no POST made yet.
WhStart(secret, max_retries) ==
    [NoWebhook EXCEPT
        !.pc = IF 0 < max_retries THEN "post" ELSE "done",
        !.secret = secret, !.max_retries = max_retries,
        !.signed = (secret # {} /\ secret # {""})]

\* timedelta(hours=24) and ex=86400: one day, counted in ticks of the clock
\* of 8 hours each.
VerificationDay == 3

\* f"ver_{uuid.uuid4().hex}": n stands for the uuid.
GwVerificationId(n) == <<"ver_", n>>
VerificationKey(verification_id) == <<"verification", verification_id>>

\* Verification types the request validator accepts (two of its five).
GwVerificationTypes == {"social_twitter", "pop_captcha"}

\* The callback_url of a request: None or a URL.
CallbackUrls == {{}, {"https://cb"}}

\* The ids a client may present: those issued so far and one never issued.
GwPresentedIds == {GwVerificationId(n) : n \in 0..nonce}

\* POST /api/verify for an admitted request: the verification is stored
\* under a new id with expires_at a day ahead, and with a TTL of a day.
GwStartVerification(address, verification_type, callback_url) ==
    /\ nonce < MaxStarts
    /\ nonce' = nonce + 1
    /\ LET verification_id == GwVerificationId(nonce + 1)
           verification_data ==
               [address |-> address, verification_type |-> verification_type,
                status |-> "pending", expires_at |-> now + VerificationDay,
                callback_url |-> callback_url, verified_at |-> {}, proof |-> {}]
       IN  /\ redis' = RedisSet(redis, VerificationKey(verification_id),
                                verification_data, VerificationDay, now)
           /\ lastOp' = [NoOp EXCEPT !.op = "gw_start", !.kind = verification_type,
                                     !.id = verification_id, !.status = "pending"]
    /\ UNCHANGED <<whVars, thrVars, now, limVars, gwVars, verifiers, verification_records,
                   vstate, left, leftM>>

\* GET /api/verify/{verification_id} for an admitted request: 404 when the
\* store has no live entry, else the stored status.
GwCheckVerificationStatus(verification_id) ==
    /\ LET verification_json == RedisGet(redis, VerificationKey(verification_id), now)
       IN  lastOp' =
              IF verification_json = {}
              THEN [NoOp EXCEPT !.op = "gw_check", !.id = verification_id,
                                !.raised = TRUE, !.status = "404"]
              ELSE [NoOp EXCEPT !.op = "gw_check", !.id = verification_id,
                                !.kind = TheOne(verification_json).verification_type,
                                !.status = TheOne(verification_json).status]
    /\ UNCHANGED <<whVars, thrVars, now, redis, limVars, gwVars, verifiers,
                   verification_records, vstate, nonce, left, leftM>>

\* A mutant of GwExpired: no verification is ever taken as expired.
GwExpired_Never(verification, t) == FALSE

\* datetime.fromisoformat(verification["expires_at"]) < datetime.now()
GwExpired(verification, t) == verification.expires_at < t

\* POST /api/verify/{verification_id}/complete for an admitted request: 404
\* when the store has no live entry, 400 when expires_at has passed, else
\* the entry is stored verified, with a new TTL of a day, and send_webhook
\* is added as a background task when the entry has a callback_url.  wh is
\* the task added last.
GwCompleteVerification(verification_id, proof) ==
    LET verification_json == RedisGet(redis, VerificationKey(verification_id), now)
        verification == TheOne(verification_json)
    IN  IF verification_json = {}
        THEN /\ lastOp' = [NoOp EXCEPT !.op = "gw_complete", !.id = verification_id,
                                       !.proof = proof, !.raised = TRUE,
                                       !.status = "404"]
             /\ UNCHANGED <<whVars, thrVars, now, redis, limVars, gwVars, verifiers,
                            verification_records, vstate, nonce, left, leftM>>
        ELSE IF GwExpired(verification, now)
        THEN /\ lastOp' = [NoOp EXCEPT !.op = "gw_complete", !.id = verification_id,
                                       !.proof = proof, !.raised = TRUE,
                                       !.status = "400"]
             /\ UNCHANGED <<whVars, thrVars, now, redis, limVars, gwVars, verifiers,
                            verification_records, vstate, nonce, left, leftM>>
        ELSE /\ redis' = RedisSet(redis, VerificationKey(verification_id),
                                  [verification EXCEPT !.status = "verified",
                                                       !.verified_at = {now},
                                                       !.proof = {proof}],
                                  VerificationDay, now)
             /\ lastOp' = [NoOp EXCEPT !.op = "gw_complete", !.id = verification_id,
                                       !.kind = verification.verification_type,
                                       !.proof = proof, !.status = "verified",
                                       !.was = verification.status]
             /\ wh' = IF verification.callback_url # {}
                      THEN WhStart({}, DefaultMaxRetries)
                      ELSE wh
             /\ UNCHANGED <<thrVars, now, limVars, gwVars, verifiers,
                            verification_records, vstate, nonce, left, leftM>>

ExpNext ==
    \/ \E address \in Addresses, verification_type \in GwVerificationTypes,
          callback_url \in CallbackUrls :
          GwStartVerification(address, verification_type, callback_url)
    \/ \E verification_id \in GwPresentedIds :
          GwCheckVerificationStatus(verification_id)
    \/ \E verification_id \in GwPresentedIds, proof \in Proofs :
          GwCompleteVerification(verification_id, proof)
    \/ Tick

SpecExpiry == VerifyInit /\ [][ExpNext]_vars

\* C18: a check of a stored verification whose expires_at is earlier than
\* the current time reports expired and stores expired, and a check of a
\* verification stored as expired reports expired.
C18_ExpiredIsReportedAndKept ==
    [][\A verification_id \in GwPresentedIds :
          (/\ lastOp'.op = "gw_check"
           /\ lastOp'.id = verification_id
           /\ now' = now
           /\ VerificationKey(verification_id) \in DOMAIN redis.data)
          => LET stored == redis.data[VerificationKey(verification_id)]
             IN  (stored.expires_at < now \/ stored.status = "expired")
                 => /\ lastOp'.status = "expired"
                    /\ redis'.data[VerificationKey(verification_id)].status = "expired"]_vars

\* ------------------------------------------------------- the registry
RegNext ==
    \/ \E i \in AllObjects : MgrRegister(i)
    \/ \E verification_type \in VerificationTypes, address \in Addresses :
          MgrStart(verification_type, address)
    \/ \E verification_id \in PresentedIds : MgrCheck(verification_id)

SpecRegistry == VerifyInit /\ [][RegNext]_vars

\* C19: register_verifier maps the kind of the verifier to that verifier
\* and to no other, leaves the entry of every other kind as it was, and
\* leaves the registry as it was when the verifier is already the one
\* registered for its kind.
C19_RegisterReplaces ==
    [][lastOp'.op = "register"
        => /\ DOMAIN verifiers' = DOMAIN verifiers \cup {lastOp'.kind}
           /\ verifiers'[lastOp'.kind] = lastOp'.obj
           /\ \A k \in DOMAIN verifiers : k # lastOp'.kind => verifiers'[k] = verifiers[k]
           /\ (lastOp'.kind \in DOMAIN verifiers /\ verifiers[lastOp'.kind] = lastOp'.obj)
              => verifiers' = verifiers]_vars

\* The second video verifier has just been registered over the first, while
\* another kind is registered too.
C19_Witness ==
    /\ lastOp.op = "register"
    /\ lastOp.obj = "video2"
    /\ lastOp.was = "video"
    /\ verifiers["pop_video"] = "video2"
    /\ "social_twitter" \in DOMAIN verifiers

\* --------------------------------------------------------- send_webhook
MaxRetriesArg == 3

\* What one POST comes to: a response with a status, or an exception (a
\* refused connection, a timeout after timeout=10).
Responses ==
    {[raised |-> FALSE, status |-> st] : st \in {200, 404, 429, 500}}
    \cup {[raised |-> TRUE, status |-> 0]}

\* The secret argument: None, a secret, the empty string.
Secrets == {{}, {"s3cret"}, {""}}

RECURSIVE Pow2(_)
Pow2(k) == IF k = 0 THEN 1 ELSE 2 * Pow2(k - 1)

\* A mutant of WhBackoff: the sleep is taken after the last round too.
WhBackoff_Always(attempt, max_retries) == attempt < max_retries

\* if attempt < max_retries - 1: the backoff sleep is taken.
WhBackoff(attempt, max_retries) == attempt < max_retries - 1

\* A mutant of WhLoop: the loop runs one round more.
WhLoop_OneMore(attempt, max_retries) == attempt < max_retries

\* for attempt in range(max_retries): there is a round after this one.
WhLoop(attempt, max_retries) == attempt + 1 < max_retries

\* send_webhook up to the loop: the headers, with the signature when the
\* secret is truthy.
SendWebhook(secret, max_retries) ==
    /\ wh.pc \in {"idle", "done"}
    /\ wh' = WhStart(secret, max_retries)
    /\ UNCHANGED <<now, redis, limVars, gwVars, verVars, thrVars>>

\* One round of the loop up to the backoff: the POST and what is made of
\* its outcome.
WhPost(response) ==
    /\ wh.pc = "post"
    /\ LET w == [wh EXCEPT !.posts = @ + 1, !.log = Append(@, response)]
       IN  wh' =
             IF ~response.raised /\ response.status < 400
             THEN [w EXCEPT !.pc = "done"]
             ELSE IF ~response.raised /\ 400 <= response.status
                     /\ response.status < 500 /\ response.status # 429
             THEN [w EXCEPT !.pc = "done"]
             ELSE IF WhBackoff(w.attempt, w.max_retries)
             THEN [w EXCEPT !.pc = "sleep"]
             ELSE IF WhLoop(w.attempt, w.max_retries)
             THEN [w EXCEPT !.attempt = @ + 1]
             ELSE [w EXCEPT !.pc = "done"]
    /\ UNCHANGED <<now, redis, limVars, gwVars, verVars, thrVars>>

\* await asyncio.sleep(2 ** attempt), then the next round if there is one.
WhSleep ==
    /\ wh.pc = "sleep"
    /\ wh' = [wh EXCEPT !.slept = Append(@, Pow2(wh.attempt)),
                        !.attempt = @ + 1,
                        !.pc = IF WhLoop(wh.attempt, wh.max_retries)
                               THEN "post" ELSE "done"]
    /\ UNCHANGED <<now, redis, limVars, gwVars, verVars, thrVars>>

WhNext ==
    \/ \E secret \in Secrets, max_retries \in 0..MaxRetriesArg :
          SendWebhook(secret, max_retries)
    \/ \E response \in Responses : WhPost(response)
    \/ WhSleep

\* Every POST ends, with a response or an exception, and every sleep ends.
SpecWebhook ==
    /\ VerifyInit
    /\ [][WhNext]_vars
    /\ WF_vars(\E response \in Responses : WhPost(response))
    /\ WF_vars(WhSleep)

\* C20: send_webhook makes at most max_retries POST attempts and always
\* terminates, whatever responses and exceptions the target produces.
C20_TerminatesWithinMaxRetries ==
    /\ [](wh.posts <= wh.max_retries)
    /\ (wh.pc \in {"post", "sleep"}) ~> (wh.pc = "done")

\* A call that has ended after max_retries attempts that all failed, one
\* of them with an exception.
C20_Witness ==
    /\ wh.pc = "done"
    /\ wh.max_retries = MaxRetriesArg
    /\ wh.posts = wh.max_retries
    /\ \E k \in 1..Len(wh.log) : wh.log[k].raised
    /\ \E k \in 1..Len(wh.log) : wh.log[k].status = 429

\* ------------------------------------------- webhooks sent by the gateway
MaxSubs == 1

\* ex=31536000: a year, in ticks of the clock.
SubscriptionYear == 365 * VerificationDay

\* f"sub_{uuid.uuid4().hex}" and the key it is stored under.
SubscriptionId(n) == <<"sub_", n>>
WebhookKey(subscription_id) == <<"webhook", subscription_id>>

\* The subscriptions in the store.
Subscriptions == {key \in DOMAIN redis.data : key[1] = "webhook"}

\* POST /api/webhooks for an admitted request: the subscription, with its
\* secret, is stored under a new id.
GwSubscribeWebhook(url, secret) ==
    /\ Cardinality(Subscriptions) < MaxSubs
    /\ LET subscription_id == SubscriptionId(Cardinality(Subscriptions) + 1)
           webhook_data == [event_types |-> {"verification_complete"}, url |-> url,
                            secret |-> secret, api_key |-> "test_api_key",
                            created_at |-> now]
       IN  /\ redis' = RedisSet(redis, WebhookKey(subscription_id), webhook_data,
                                SubscriptionYear, now)
           /\ lastOp' = [NoOp EXCEPT !.op = "gw_subscribe", !.id = subscription_id]
    /\ UNCHANGED <<whVars, thrVars, now, limVars, gwVars, verifiers,
                   verification_records, vstate, nonce, left, leftM>>

DispatchNext ==
    \/ \E url \in {"https://cb"}, secret \in Secrets : GwSubscribeWebhook(url, secret)
    \/ \E address \in Addresses, verification_type \in GwVerificationTypes,
          callback_url \in CallbackUrls :
          GwStartVerification(address, verification_type, callback_url)
    \/ \E verification_id \in GwPresentedIds, proof \in Proofs :
          GwCompleteVerification(verification_id, proof)
    \/ \E response \in Responses : WhPost(response)
    \/ WhSleep

SpecDispatch == VerifyInit /\ [][DispatchNext]_vars

\* A secret was supplied for the webhooks of verification completions sent
\* to this URL.
SecretSupplied(url) ==
    \E key \in Subscriptions :
        /\ redis.data[key].url = url
        /\ "verification_complete" \in redis.data[key].event_types
        /\ redis.data[key].secret \notin {{}, {""}}

\* C21: a webhook the gateway sends on the completion of a verification
\* carries a signature header when a secret was supplied for it, and none
\* when no secret was supplied.
C21_SignedWhenSecretSupplied ==
    [][\A verification_id \in GwPresentedIds :
          (/\ lastOp'.op = "gw_complete"
           /\ lastOp'.id = verification_id
           /\ lastOp'.status = "verified"
           /\ redis' # redis
           /\ wh'.pc = "post" /\ wh'.posts = 0
           /\ VerificationKey(verification_id) \in DOMAIN redis.data)
          => \A url \in redis.data[VerificationKey(verification_id)].callback_url :
                wh'.signed <=> SecretSupplied(url)]_vars

\* -------------------------------------------------- the TTL of a bucket
\* C22: every consume call returns what the same call returns on a store
\* that never drops an entry, after any sequence of calls and clock
\* advances: dropping a bucket at its TTL changes no decision.
C22_TtlChangesNoDecision ==
    lastCall.called => lastCall.ret = shadow.ret

\* A call that found its bucket dropped by the store, while the store that
\* never drops still holds it, and was admitted at a cost above zero.
C22_Witness ==
    /\ lastCall.called
    /\ lastCall.cost > 0
    /\ lastCall.ret
    /\ BucketKey(lastCall.key) \in DOMAIN lastCall.pre.data
    /\ RedisGet(lastCall.pre, BucketKey(lastCall.key), lastCall.at) = {}
    /\ shadow.data[BucketKey(lastCall.key)].tokens < cfg.capacity

\* ------------------------------------------------- a store that fails
\* What a store passed to the limiter can do during one consume call: serve
\* it, fail the read, or fail the write.  A failed operation raises out of
\* the awaited redis.get or redis.set and leaves the store as it was.
StoreFaults == {"get", "set"}

\* A mutant of ConsumeOnStore: a failure of the store answered as a denial.
ConsumeOnStore_DenyOnFault(st, key, tokens, rate, capacity, t, fault) ==
    [raised |-> FALSE, ret |-> {FALSE}, redis |-> st]

\* consume on a store whose read or write raises: no try/except surrounds
\* either await, so the exception leaves consume and no value is returned
\* (ret is empty).  The write is reached only past both denial returns.
ConsumeOnStore(st, key, tokens, rate, capacity, t, fault) ==
    LET bucket_json == RedisGet(st, BucketKey(key), t)
        d           == Decide(bucket_json, t, tokens, rate, capacity)
    IN  IF fault = "get"
        THEN [raised |-> TRUE, ret |-> {}, redis |-> st]
        ELSE IF d.bucket = {}
        THEN [raised |-> FALSE, ret |-> {FALSE}, redis |-> st]
        ELSE IF fault = "set"
        THEN [raised |-> TRUE, ret |-> {}, redis |-> st]
        ELSE [raised |-> FALSE, ret |-> {TRUE},
              redis  |-> RedisSet(st, BucketKey(key), TheOne(d.bucket),
                                  Ttl(rate, capacity), t)]

\* The store operation named by fault is reached by the call: the read
\* always, the write when the call is not denied before it.
FaultReached(st, key, tokens, rate, capacity, t, fault) ==
    fault = "get" \/ Consume(st, key, tokens, rate, capacity, t).ret

\* rate_limiter.consume(key, cost, cfg.rate, cfg.capacity) at time now, with
\* the store failing the operation named by fault.
ConsumeFault(key, cost, fault) ==
    LET r == ConsumeOnStore(redis, key, cost, cfg.rate, cfg.capacity, now, fault)
    IN  /\ FaultReached(redis, key, cost, cfg.rate, cfg.capacity, now, fault)
        /\ redis' = r.redis
        /\ lastOp' = [NoOp EXCEPT !.op = "consume", !.kind = fault,
                                  !.raised = r.raised,
                                  !.status = IF r.ret = {} THEN "error"
                                             ELSE IF TRUE \in r.ret THEN "True"
                                             ELSE "False"]
        /\ UNCHANGED <<whVars, thrVars, now, limVars, gwVars, verifiers,
                       verification_records, vstate, nonce, left, leftM>>

FaultNext ==
    \/ \E key \in Keys, cost \in 0..MaxCost : ConsumeCall(key, cost)
    \/ \E key \in Keys, cost \in 0..MaxCost, fault \in StoreFaults :
          ConsumeFault(key, cost, fault)
    \/ Tick

SpecStoreFault == Init /\ [][FaultNext]_vars

FrameObjects == {"twitter", "video"}

FrameNext ==
    \/ \E i \in FrameObjects : MgrRegister(i)
    \/ \E verification_type \in VerificationTypes, address \in Addresses :
          MgrStart(verification_type, address)
    \/ \E verification_id \in PresentedIds : MgrCheck(verification_id)
    \/ \E verification_id \in PresentedIds, proof \in Proofs :
          MgrComplete(verification_id, proof)
    \/ \E address \in Addresses : MgrHistory(address)

SpecFrame == VerifyInit /\ [][FrameNext]_vars

IsoConsume(key, cost) ==
    LET r == Consume(redis, key, cost, cfg.rate, cfg.capacity, now)
        a == Consume(alone[key].redis, key, cost, cfg.rate, cfg.capacity, now)
    IN  /\ redis' = r.redis
        /\ alone' = [alone EXCEPT ![key] = [redis |-> a.redis, ret |-> {a.ret}]]
        /\ lastCall' = [NoCall EXCEPT !.called = TRUE, !.key = key, !.ret = r.ret]
        /\ UNCHANGED <<whVars, thrVars, now, cfg, streak, denial, phase, shadow,
                       gwVars, verVars>>

IsoNext ==
    \/ \E key \in TwoKeys, cost \in 0..MaxCost : IsoConsume(key, cost)
    \/ Tick

SpecIsolation == Init /\ [][IsoNext]_vars

\* What a store holds for a key: its bucket and the bucket's expiry.
StoredFor(st, key) ==
    [data   |-> IF BucketKey(key) \in DOMAIN st.data
                THEN {st.data[BucketKey(key)]} ELSE {},
     expiry |-> IF BucketKey(key) \in DOMAIN st.expiry
                THEN {st.expiry[BucketKey(key)]} ELSE {}]

\* C25: with calls on two keys interleaved in any order on one store, every
\* call returns what it returns when the calls of its key run alone, and what
\* the store holds for each key is what it holds when that key's calls run
\* alone.
C25_KeysAreIsolated ==
    /\ \A key \in TwoKeys : StoredFor(redis, key) = StoredFor(alone[key].redis, key)
    /\ lastCall.called => {lastCall.ret} = alone[lastCall.key].ret

\* A call on one key admitted while the bucket of the other key is stored
\* with fewer tokens than that call needed.
C25_Witness ==
    /\ lastCall.called
    /\ lastCall.ret
    /\ \E other \in TwoKeys \ {lastCall.key} :
          /\ RedisGet(redis, BucketKey(other), now) # {}
          /\ redis.data[BucketKey(other)].tokens = 0
          /\ redis.data[BucketKey(other)].last_refill = now
    /\ RedisGet(redis, BucketKey(lastCall.key), now) # {}
    /\ redis.data[BucketKey(lastCall.key)].tokens < cfg.capacity

\* ------------------------------------------------ retries and their waits
\* The outcome of an attempt is one the loop goes on after: an exception, a
\* 5xx status or 429.
Retryable(response) ==
    response.raised \/ response.status >= 500 \/ response.status = 429

\* C26: in every state of a send_webhook call, every attempt but the last
\* one made ended in an exception, a 5xx status or 429; the waits taken are
\* 1, 2, 4, ... seconds, the k-th of them (k from 0) of 2^k seconds and taken
\* before attempt k+1; and a call that has ended has waited once less than
\* it has attempted, so not after its last attempt.
C26_RetryOnlyAfterFailure ==
    /\ \A j \in 1..(Len(wh.log) - 1) : Retryable(wh.log[j])
    /\ \A k \in 1..Len(wh.slept) : wh.slept[k] = Pow2(k - 1)
    /\ wh.pc = "post" => Len(wh.slept) = Len(wh.log)
    /\ wh.pc = "sleep" => Len(wh.slept) + 1 = Len(wh.log)
    /\ (wh.pc = "done" /\ Len(wh.log) > 0) => Len(wh.slept) + 1 = Len(wh.log)
    /\ (wh.pc = "done" /\ Len(wh.log) = 0) => Len(wh.slept) = 0

\* A call that ended after three attempts, the last of them a 500, with
\* waits of 1 and 2 seconds and none after the third attempt.
C26_Witness ==
    /\ wh.pc = "done"
    /\ Len(wh.log) = 3
    /\ wh.log[1].raised
    /\ ~wh.log[2].raised /\ wh.log[2].status = 429
    /\ ~wh.log[3].raised /\ wh.log[3].status = 500
    /\ wh.slept = <<1, 2>>

\* ------------------------------------------- the record and its session
\* C27: with every kind registered once, in every state the calls start,
\* check and complete of the manager reach, the status in the manager's
\* record of an id is the status in the session the kind's verifier holds
\* for that id.
C27_RecordMirrorsMethod ==
    \A id \in DOMAIN verification_records :
        LET kind == verification_records[id].verification_type
        IN  (kind \in DOMAIN verifiers /\ id \in DOMAIN vstate[verifiers[kind]].sessions)
               => verification_records[id].status
                     = vstate[verifiers[kind]].sessions[id].status

\* ------------------------------------------- ids of a replaced verifier
\* Two ProofOfPersonhoodVerifier('video') objects registered one over the
\* other, verifications of one address and one recording as the proof (a
\* video session accepts every proof).
ReplaceNext ==
    \/ \E i \in {"video"} \cup SecondObjects : MgrRegister(i)
    \/ \E address \in {"0xa"} : MgrStart("pop_video", address)
    \/ \E verification_id \in PresentedIds : MgrCheck(verification_id)
    \/ \E verification_id \in PresentedIds, proof \in {p \in Proofs : p.isStr} :
          MgrComplete(verification_id, proof)

SpecReplace == VerifyInit /\ [][ReplaceNext]_vars

\* The id was started under a verifier that its kind no longer maps to: the
\* verifier now registered for the kind has no session for it.
Replaced(id) ==
    LET kind == verification_records[id].verification_type
    IN  /\ kind \in DOMAIN verifiers
        /\ id \notin DOMAIN vstate[verifiers[kind]].sessions
        /\ \E j \in AllObjects : id \in DOMAIN vstate[j].sessions

\* C28: once the verifier of a kind has been replaced, a check of an id
\* started under the previous one returns not_found and leaves not_found as
\* the record's status, and a complete of it returns failed and leaves failed
\* as the record's status, whatever the status was.
C28_ReplacedIdIsLost ==
    [][\A id \in DOMAIN verification_records :
          (Replaced(id) /\ lastOp'.id = id /\ ~lastOp'.raised)
             => /\ lastOp'.op = "check"
                   => /\ lastOp'.status = "not_found"
                      /\ verification_records'[id].status = "not_found"
                /\ lastOp'.op = "complete"
                   => /\ lastOp'.status = "failed"
                      /\ verification_records'[id].status = "failed"]_vars

\* A record that was verified under the first verifier and reads not_found
\* after a check made once the kind had been given the second one.
C28_Witness ==
    \E id \in DOMAIN verification_records :
        /\ Replaced(id)
        /\ verification_records[id].verified_at # {}
        /\ verification_records[id].status = "not_found"
        /\ lastOp.op = "check"
        /\ lastOp.id = id
        /\ "verified" \in left[id]

\* ------------------------------------------- completing after the expiry
\* Verifications of one address and one kind, with and without a
\* callback_url, completed at any time before and after the day has passed.
LateNext ==
    \/ \E callback_url \in CallbackUrls :
          GwStartVerification("0xa", "social_twitter", callback_url)
    \/ \E verification_id \in GwPresentedIds, proof \in {p \in Proofs : p.isStr} :
          GwCompleteVerification(verification_id, proof)
    \/ Tick

SpecLate == VerifyInit /\ [][LateNext]_vars

\* C29: a complete of a stored verification whose expires_at is earlier
\* than the current time ends in 400, or in 404 when the store no longer
\* shows the entry; it leaves the store as it was, the status included, and
\* adds no webhook task.
C29_ExpiredIsNotCompleted ==
    [][\A verification_id \in GwPresentedIds :
          (/\ lastOp'.op = "gw_complete"
           /\ lastOp'.id = verification_id
           /\ now' = now
           /\ VerificationKey(verification_id) \in DOMAIN redis.data
           /\ redis.data[VerificationKey(verification_id)].expires_at < now)
          => /\ lastOp'.raised
             /\ lastOp'.status \in {"400", "404"}
             /\ redis' = redis
             /\ wh' = wh]_vars

\* A complete answered 400: the entry is past its expires_at, the store
\* still shows it, and it carries a callback_url.
C29_Witness ==
    /\ lastOp.op = "gw_complete"
    /\ lastOp.status = "400"
    /\ RedisGet(redis, VerificationKey(lastOp.id), now) # {}
    /\ redis.data[VerificationKey(lastOp.id)].expires_at < now
    /\ redis.data[VerificationKey(lastOp.id)].callback_url # {}

\* ------------------------------- the analytics server's per-minute counter
MaxRateLimit == 2
MaxWindowCount == 3

\* The clock in ticks of 30 seconds: strftime('%Y-%m-%d-%H-%M') of a time.
TicksPerMinute == 2
Minute(t) == t \div TicksPerMinute

\* minute_key = f"{api_key}:{now.strftime('%Y-%m-%d-%H-%M')}"
MinuteKey(api_key, t) == <<api_key, Minute(t)>>

\* The count stored under a minute key, 0 when the key is absent.
Count(counts, minute_key) ==
    IF minute_key \in DOMAIN counts THEN counts[minute_key] ELSE 0

\* A mutant of OverLimit: the request that reaches the limit is rejected.
OverLimit_AtLimit(count, rate_limit) == count >= rate_limit

\* if request_counts[minute_key] > api_keys[api_key]["rate_limit"]
OverLimit(count, rate_limit) == count > rate_limit

\* create_api_key of the analytics server: rate_limit is any int of the
\* request; the limits taken here are 0 and above.
FwCreateApiKey(rate_limit) ==
    /\ "ask_1" \notin DOMAIN api_keys
    /\ api_keys' = ("ask_1" :> rate_limit) @@ api_keys
    /\ lastOp' = [NoOp EXCEPT !.op = "create_key", !.kind = "ask_1"]
    /\ UNCHANGED <<whVars, thrVars, now, redis, limVars, req, request_counts, served,
                   verifiers, verification_records, vstate, nonce, left, leftM>>

\* validate_api_key of the analytics server: 401 for an unknown key; else
\* the counter of the key's minute is created at 1 or incremented, and the
\* request is answered 429 when the counter is over the key's rate_limit.
FwValidateApiKey(api_key) ==
    IF api_key \notin DOMAIN api_keys
    THEN /\ lastOp' = [NoOp EXCEPT !.op = "validate", !.kind = api_key,
                                   !.raised = TRUE, !.status = "401"]
         /\ UNCHANGED <<whVars, thrVars, now, redis, limVars, gwVars, verifiers,
                        verification_records, vstate, nonce, left, leftM>>
    ELSE LET minute_key == MinuteKey(api_key, now)
             count      == Count(request_counts, minute_key) + 1
             status     == IF OverLimit(count, api_keys[api_key]) THEN "429" ELSE "200"
         IN  /\ Count(request_counts, minute_key) < MaxWindowCount
             /\ request_counts' = (minute_key :> count) @@ request_counts
             /\ served' = (minute_key :> Append(IF minute_key \in DOMAIN served
                                                THEN served[minute_key] ELSE <<>>,
                                                status)) @@ served
             /\ lastOp' = [NoOp EXCEPT !.op = "validate", !.kind = api_key,
                                       !.raised = (status = "429"), !.status = status]
             /\ UNCHANGED <<whVars, thrVars, now, redis, limVars, api_keys, req,
                            verifiers, verification_records, vstate, nonce, left, leftM>>

WindowNext ==
    \/ \E rate_limit \in 0..MaxRateLimit : FwCreateApiKey(rate_limit)
    \/ \E api_key \in Headers : FwValidateApiKey(api_key)
    \/ Tick

SpecWindow == VerifyInit /\ [][WindowNext]_vars

\* C30: under every counter of a key and a minute, the answers given so far
\* are as many as the counter says, the first rate_limit of them admitted
\* and every later one 429; a request with a known key adds 1 to the counter
\* of its key and minute and leaves every other counter as it was; a request
\* with an unknown key is answered 401 and leaves every counter as it was.
C30_FixedWindow ==
    /\ [](\A minute_key \in DOMAIN request_counts :
             /\ Len(served[minute_key]) = request_counts[minute_key]
             /\ \A n \in 1..Len(served[minute_key]) :
                   served[minute_key][n]
                      = IF n <= api_keys[minute_key[1]] THEN "200" ELSE "429")
    /\ [][(lastOp'.op = "validate" /\ now' = now /\ api_keys' = api_keys)
             => IF lastOp'.kind \in DOMAIN api_keys
                THEN LET mine == MinuteKey(lastOp'.kind, now)
                     IN  /\ lastOp'.status \in {"200", "429"}
                         /\ Count(request_counts', mine) = Count(request_counts, mine) + 1
                         /\ \A other \in (DOMAIN request_counts
                                              \cup DOMAIN request_counts') \ {mine} :
                               Count(request_counts', other) = Count(request_counts, other)
                ELSE /\ lastOp'.status = "401"
                     /\ request_counts' = request_counts]_vars

\* A key limited to 2 per minute whose third request of a minute was
\* answered 429, in a minute after one in which it was also counted, while
\* another key has a counter of its own.
C30_Witness ==
    /\ "ask_1" \in DOMAIN api_keys
    /\ api_keys["ask_1"] = 2
    /\ Minute(now) > 0
    /\ MinuteKey("ask_1", 0) \in DOMAIN request_counts
    /\ MinuteKey("ask_1", now) \in DOMAIN served
    /\ served[MinuteKey("ask_1", now)] = <<"200", "200", "429">>
    /\ MinuteKey("test_api_key", now) \in DOMAIN request_counts
    /\ lastOp.op = "validate"
    /\ lastOp.kind = "ask_1"
    /\ lastOp.status = "429"

====
